---- MODULE Spec2Model ----
(***************************************************************************)
(* Model of the SFTP client of vscode-deploy-reloaded                      *)
(* (src/src/clients/sftp.ts): SFTPClient.uploadFile, downloadFile,         *)
(* listDirectory with the per-file download capability, and                *)
(* openConnection.  Every `await` of the source is a step boundary: one    *)
(* action is the synchronous code that runs between two suspension points. *)
(***************************************************************************)
EXTENDS Integers, Sequences, FiniteSets, Bags, TLC

\* ------------------------------------------------------------------------
\* Bounds
\* ------------------------------------------------------------------------
MaxUploads == 2      \* uploadFile calls in flight at once on the listing session
MaxChunks == 2       \* chunks the remote read stream delivers for one file
MaxEntries == 2      \* raw entries the transport answers to one listing

\* ------------------------------------------------------------------------
\* Paths.  A raw path is a sequence of tokens: segment names and the
\* separator.  A remote (SFTP) path is the sequence of its segment names and
\* stands for '/' + segments joined by '/'.
\* ------------------------------------------------------------------------
Sep == "/"

IsName(t) == t # Sep

\* deploy_helpers.normalizePath: separators are collapsed and leading and
\* trailing ones removed, which leaves the segment names.
NormalizePath(raw) == SelectSeq(raw, IsName)

\* toSFTPPath: '/' + normalizePath(path)
toSFTPPath(raw) == NormalizePath(raw)

RECURSIVE StripTrailingSeps(_)
StripTrailingSeps(s) ==
    IF Len(s) > 1 /\ s[Len(s)] = Sep
    THEN StripTrailingSeps(SubSeq(s, 1, Len(s) - 1))
    ELSE s

\* Path.dirname (posix) of a raw path that has a directory part.
Dirname(raw) ==
    LET last == CHOOSE i \in 1..Len(raw) :
                    /\ raw[i] # Sep
                    /\ \A j \in (i + 1)..Len(raw) : raw[j] = Sep
    IN  StripTrailingSeps(SubSeq(raw, 1, last - 1))

\* The paths the caller uploads to.  Each has a directory part, so that
\* Path.dirname never answers '.'.
RawPaths ==
    { <<"a", "/", "/", "b.sh">>,
      <<"/", "1">>,
      <<"/", ".x">> }

\* ------------------------------------------------------------------------
\* Mode values: the characters of String(value); a digit is itself, Ws is a
\* white space.
\* ------------------------------------------------------------------------
Ws == -1

RECURSIVE TrimLeft(_)
TrimLeft(s) == IF s # <<>> /\ Head(s) = Ws THEN TrimLeft(Tail(s)) ELSE s

RECURSIVE TrimRight(_)
TrimRight(s) ==
    IF s # <<>> /\ s[Len(s)] = Ws
    THEN TrimRight(SubSeq(s, 1, Len(s) - 1))
    ELSE s

\* String.prototype.trim
Trim(s) == TrimRight(TrimLeft(s))

RECURSIVE OctalPrefix(_)
OctalPrefix(s) ==
    IF s # <<>> /\ Head(s) \in 0..7
    THEN <<Head(s)>> \o OctalPrefix(Tail(s))
    ELSE <<>>

RECURSIVE OctalValue(_)
OctalValue(d) ==
    IF d = <<>> THEN 0
    ELSE 8 * OctalValue(SubSeq(d, 1, Len(d) - 1)) + d[Len(d)]

NoMode == [kind |-> "false", val |-> 0]
NaNMode == [kind |-> "nan", val |-> 0]
NumMode(n) == [kind |-> "num", val |-> n]

\* parseInt(str, 8): the longest prefix of octal digits, NaN if there is none.
ParseIntOctal(s) ==
    LET d == OctalPrefix(TrimLeft(s))
    IN  IF d = <<>> THEN NaNMode ELSE NumMode(OctalValue(d))

\* ------------------------------------------------------------------------
\* Glob patterns.  A pattern is [rooted, segs]: whether its text starts with
\* '/', and its segments: "**", "*", "*.sh" or a literal name.
\* ------------------------------------------------------------------------
Pat(r, s) == [rooted |-> r, segs |-> s]

\* nocase: names are compared in lower case
Lower(n) == IF n = "B.SH" THEN "b.sh" ELSE n

ShNames == {"b.sh"}

\* one path segment against one pattern segment, options dot: true, nocase: true
SegMatch(name, sp) ==
    \/ sp = "*"
    \/ sp = "*.sh" /\ Lower(name) \in ShNames
    \/ sp \notin {"*", "*.sh", "**"} /\ Lower(sp) = Lower(name)

RECURSIVE GlobMatch(_, _)
GlobMatch(p, g) ==
    IF g = <<>> THEN p = <<>>
    ELSE IF Head(g) = "**"
         THEN \/ GlobMatch(p, Tail(g))
              \/ p # <<>> /\ GlobMatch(Tail(p), g)
         ELSE /\ p # <<>>
              /\ SegMatch(Head(p), Head(g))
              /\ GlobMatch(Tail(p), Tail(g))

\* deploy_helpers.doesMatch(path, pattern, {dot, nocase}) for a rooted
\* pattern and an absolute remote path
doesMatch(path, pattern) == pattern.rooted /\ GlobMatch(path, pattern.segs)

\* pattern.startsWith('/') ? pattern : '/' + pattern
RootPattern(P) == IF P.rooted THEN P ELSE Pat(TRUE, P.segs)

\* ------------------------------------------------------------------------
\* Mode settings (options.modes): absent, a single value, or a map from
\* pattern to value, written as the sequence of its entries in declared order.
\* ------------------------------------------------------------------------
Entry(P, m) == [pattern |-> P, mode |-> m]

AbsentModes == [kind |-> "absent", value |-> <<>>, entries |-> <<>>]
SingleModes(m) == [kind |-> "single", value |-> m, entries |-> <<>>]
MapModes(es) == [kind |-> "map", value |-> <<>>, entries |-> es]

ShFirstMap ==
    MapModes(<< Entry(Pat(FALSE, <<"**", "*.sh">>), <<7, 5, 5>>),
                Entry(Pat(FALSE, <<"**", "*">>), <<6, 4, 4>>) >>)

IndexKeyMap ==
    MapModes(<< Entry(Pat(FALSE, <<"**", "*">>), <<6, 4, 4>>),
                Entry(Pat(FALSE, <<"1">>), <<7, 5, 5>>) >>)

SubDirMap ==
    MapModes(<< Entry(Pat(TRUE, <<"a", "*">>), <<Ws, 6, 0, 0, Ws>>) >>)

ModeSettings ==
    { AbsentModes,
      SingleModes(<<6, 4, 4>>),
      SingleModes(<<9>>),
      ShFirstMap,
      IndexKeyMap,
      SubDirMap }

\* A property key that is a canonical array index ("1") and its number.
IndexOf(P) ==
    IF ~P.rooted /\ Len(P.segs) = 1 /\ P.segs[1] = "1" THEN 1
    ELSE IF ~P.rooted /\ Len(P.segs) = 1 /\ P.segs[1] = "2" THEN 2
    ELSE -1

IsIndexKey(e) == IndexOf(e.pattern) >= 0
IsStringKey(e) == IndexOf(e.pattern) < 0

RECURSIVE AscendingIndex(_)
AscendingIndex(S) ==
    IF S = {} THEN <<>>
    ELSE LET m == CHOOSE e \in S :
                      \A f \in S : IndexOf(e.pattern) <= IndexOf(f.pattern)
         IN  <<m>> \o AscendingIndex(S \ {m})

Range(s) == { s[i] : i \in 1..Len(s) }

\* for (const P in fileModes): array-index keys in ascending numeric order,
\* then the other keys in the order they were added
ForIn(entries) ==
    AscendingIndex(Range(SelectSeq(entries, IsIndexKey)))
        \o SelectSeq(entries, IsStringKey)

\* FileModes with a single value wrapped as {'*': modes}
FileModesShallow(m) ==
    IF m.kind = "absent" THEN [set |-> FALSE, entries |-> <<>>]
    ELSE IF m.kind = "single"
         THEN [set |-> TRUE,
               entries |-> << Entry(Pat(FALSE, <<"*">>), m.value) >>]
         ELSE [set |-> TRUE, entries |-> m.entries]

\* let fileModes = false; if (modes given) { wrap a non-object as {'**/*': modes} }
FileModes(m) ==
    IF m.kind = "absent" THEN [set |-> FALSE, entries |-> <<>>]
    ELSE IF m.kind = "single"
         THEN [set |-> TRUE,
               entries |-> << Entry(Pat(FALSE, <<"**", "*">>), m.value) >>]
         ELSE [set |-> TRUE, entries |-> m.entries]

NoPattern == Pat(FALSE, <<>>)

NoMatch == [matched |-> FALSE, pattern |-> NoPattern, mode |-> NoMode]

\* the loop body over the keys still to visit: the first key whose rooted
\* pattern matches sets matchedPattern and modeToSet, and breaks
RECURSIVE MatchLoop(_, _)
MatchLoop(keys, path) ==
    IF keys = <<>> THEN NoMatch
    ELSE IF doesMatch(path, RootPattern(Head(keys).pattern))
         THEN [matched |-> TRUE,
               pattern |-> Head(keys).pattern,
               mode |-> ParseIntOctal(Trim(Head(keys).mode))]
         ELSE MatchLoop(Tail(keys), path)

\* let modeToSet = false; if (false !== fileModes) { for (P in fileModes) ... }
ResolveMode(fileModes, path) ==
    IF ~fileModes.set THEN NoMatch
    ELSE MatchLoop(ForIn(fileModes.entries), path)

\* ------------------------------------------------------------------------
\* Promises and deploy_helpers.createCompletedAction
\* ------------------------------------------------------------------------
NoError == "none"

\* new Promise((resolve, reject) => ...): settles counts the calls of
\* resolve and reject; only the first one decides the state.
NewPromise ==
    [invoked |-> FALSE, state |-> "pending", settles |-> 0,
     err |-> NoError, value |-> <<>>]

Resolve(p, v) ==
    [p EXCEPT !.settles = @ + 1,
              !.state = IF p.state = "pending" THEN "resolved" ELSE @,
              !.value = IF p.state = "pending" THEN v ELSE @]

Reject(p, e) ==
    [p EXCEPT !.settles = @ + 1,
              !.state = IF p.state = "pending" THEN "rejected" ELSE @,
              !.err = IF p.state = "pending" THEN e ELSE @]

\* the function createCompletedAction(resolve, reject) returns: the first
\* invocation rejects with err or resolves with the result, later ones return
Completed(p, err, v) ==
    IF p.invoked THEN p
    ELSE IF err # NoError
         THEN Reject([p EXCEPT !.invoked = TRUE], err)
         ELSE Resolve([p EXCEPT !.invoked = TRUE], v)

\* ------------------------------------------------------------------------
\* Connection options.  A text is the sequence of its pieces: Blank is a run
\* of whitespace, any other piece a run of other characters.  A number option
\* is given by the characters of String(value): a digit is itself, Dot stands
\* for a character that is neither a digit nor whitespace.
\* ------------------------------------------------------------------------
Blank == " "
Dot == -2

\* an option the configuration leaves out, and one it gives
Undefined == [given |-> FALSE, str |-> <<>>]
Given(s) == [given |-> TRUE, str |-> s]

\* deploy_helpers.toStringSafe: '' for undefined
toStringSafe(v) == IF v.given THEN v.str ELSE <<>>

\* String.prototype.toLowerCase
LowerPiece(c) == IF c = "AB" THEN "ab" ELSE IF c = "HOST" THEN "host" ELSE c
toLowerCase(s) == [k \in 1..Len(s) |-> LowerPiece(s[k])]

RECURSIVE TrimBlanksLeft(_)
TrimBlanksLeft(s) ==
    IF s # <<>> /\ Head(s) = Blank THEN TrimBlanksLeft(Tail(s)) ELSE s

RECURSIVE TrimBlanksRight(_)
TrimBlanksRight(s) ==
    IF s # <<>> /\ s[Len(s)] = Blank
    THEN TrimBlanksRight(SubSeq(s, 1, Len(s) - 1))
    ELSE s

\* String.prototype.trim of a text
TrimBlanks(s) == TrimBlanksRight(TrimBlanksLeft(s))

\* deploy_helpers.normalizeString: the string in lower case, trimmed
normalizeString(s) == TrimBlanks(toLowerCase(s))

\* deploy_helpers.isEmptyString
isEmptyString(s) == TrimBlanks(s) = <<>>

RECURSIVE DigitPrefix(_)
DigitPrefix(s) ==
    IF s # <<>> /\ Head(s) \in 0..9
    THEN <<Head(s)>> \o DigitPrefix(Tail(s))
    ELSE <<>>

RECURSIVE DecimalValue(_)
DecimalValue(d) ==
    IF d = <<>> THEN 0
    ELSE 10 * DecimalValue(SubSeq(d, 1, Len(d) - 1)) + d[Len(d)]

\* parseInt(str): the longest prefix of decimal digits, NaN if there is none
ParseIntDecimal(s) ==
    LET d == DigitPrefix(TrimLeft(s))
    IN  IF d = <<>> THEN NaNMode ELSE NumMode(DecimalValue(d))

DEFAULT_HOST == <<"127.0.0.1">>
DefaultPort == 22
DefaultReadyTimeout == 20000

\* options.hashes: left out, one string, or an array of strings
NoHashes == [kind |-> "absent", items |-> <<>>]
OneHash(t) == [kind |-> "one", items |-> t]
HashList(l) == [kind |-> "list", items |-> l]

\* deploy_helpers.asArray: no value is [], a value that is no array is [value]
asArray(h) ==
    IF h.kind = "absent" THEN <<>>
    ELSE IF h.kind = "one" THEN <<h.items>>
    ELSE h.items

IsNotEmpty(x) == x # <<>>

\* AcceptedHashes without the filter: blank entries stay in the list
AcceptedHashesUnfiltered(opts) ==
    LET a == asArray(opts.hashes)
    IN  [k \in 1..Len(a) |-> normalizeString(a[k])]

\* asArray(opts.hashes).map(x => normalizeString(x)).filter(x => '' !== x)
AcceptedHashes(opts) ==
    LET a == asArray(opts.hashes)
    IN  SelectSeq([k \in 1..Len(a) |-> normalizeString(a[k])], IsNotEmpty)

\* hostVerifier with keyHash compared as the transport presents it
hostVerifierRaw(hashes, keyHash) ==
    IF Len(hashes) < 1 THEN TRUE
    ELSE \E i \in 1..Len(hashes) : hashes[i] = keyHash

\* hostVerifier: (keyHash) => { if (hashes.length < 1) return true;
\*   keyHash = normalizeString(keyHash); return hashes.indexOf(keyHash) > -1 }
hostVerifier(hashes, keyHash) ==
    IF Len(hashes) < 1 THEN TRUE
    ELSE \E i \in 1..Len(hashes) : hashes[i] = normalizeString(keyHash)

\* ResolveHost without the test for ''
ResolveHostNoDefault(opts) == normalizeString(toStringSafe(opts.host))

\* host = normalizeString(opts.host); if ('' === host) host = '127.0.0.1'
ResolveHost(opts) ==
    LET host == normalizeString(toStringSafe(opts.host))
    IN  IF host = <<>> THEN DEFAULT_HOST ELSE host

\* port = parseInt(toStringSafe(opts.port).trim()); if (isNaN(port)) port = 22
ResolvePort(opts) ==
    LET port == ParseIntDecimal(Trim(toStringSafe(opts.port)))
    IN  IF port.kind = "nan" THEN DefaultPort ELSE port.val

\* readyTimeout = parseInt(...); if (isNaN(readyTimeout)) readyTimeout = 20000
ResolveReadyTimeout(opts) ==
    LET readyTimeout == ParseIntDecimal(Trim(toStringSafe(opts.readyTimeout)))
    IN  IF readyTimeout.kind = "nan" THEN DefaultReadyTimeout ELSE readyTimeout.val

\* privateKeyFile is not false: a key file is read before the connect
HasPrivateKeyFile(opts) == ~isEmptyString(toStringSafe(opts.privateKey))

\* nothing was passed to the transport's connect yet
NoConnect == [host |-> <<>>, port |-> 0, readyTimeout |-> 0, hashes |-> <<>>]

\* the argument of CLIENT.client.connect; hashes is what its hostVerifier holds
ConnectConfig(opts) ==
    [host |-> ResolveHost(opts), port |-> ResolvePort(opts),
     readyTimeout |-> ResolveReadyTimeout(opts), hashes |-> AcceptedHashes(opts)]

ConnectionOptions(h, p, t, hs, k) ==
    [host |-> h, port |-> p, readyTimeout |-> t, hashes |-> hs, privateKey |-> k]

\* connect with default options: nothing is configured
DefaultOptions == ConnectionOptions(Undefined, Undefined, Undefined, NoHashes, Undefined)

\* the connection options of the listing client
ConnectionSettings ==
    { DefaultOptions,
      ConnectionOptions(Given(<<Blank>>), Given(<<Dot>>), Given(<<Dot>>),
                        HashList(<< <<>>, <<Blank>> >>), Given(<<Blank>>)),
      ConnectionOptions(Given(<<"host">>), Given(<<2, 1>>), Given(<<3, 0>>),
                        HashList(<< <<"ab">> >>), Undefined),
      ConnectionOptions(Given(<<Blank, "HOST", Blank>>), Given(<<2, 1, Dot, 5>>),
                        Given(<<3, 0, Dot, 5>>), OneHash(<<"AB", Blank>>),
                        Given(<<"key">>)),
      ConnectionOptions(Given(<<"host">>), Given(<<2, 1>>), Undefined,
                        HashList(<< <<>>, <<"ab">>, <<"cd">> >>), Undefined) }

\* the digests of the host keys a server presents
KeyHashes == { <<"ab">>, <<"AB">>, <<"ef">> }

\* ------------------------------------------------------------------------
\* State
\* ------------------------------------------------------------------------
NoSession == "none"
ListingSession == "listing"   \* the client the caller opened and works on
TempSession == "temp"         \* the client a download capability opens
Sessions == {ListingSession, TempSession}

VARIABLES
    modes,              \* options.modes of the listing client
    options,            \* the connection options of the listing client
    sessState,          \* per client: "none", "open" or "closed"
    checkedRemoteDirs,  \* per client: the directories marked in _checkedRemoteDirs
    ensured,            \* per client: directories a list or a mkdir succeeded for
    up,                 \* the bag of uploadFile calls in flight: position and locals of each
    dl,                 \* the downloadFile call in flight
    cap,                \* the invocation in flight of a File entry's download()
    ls,                 \* the listDirectory call in flight
    held,               \* the caller holds a File entry of an earlier listing
    del                 \* the deleteFile call in flight

vars == <<modes, options, sessState, checkedRemoteDirs, ensured, up, dl, cap, ls, held, del>>

sessionVars == <<modes, options, sessState, checkedRemoteDirs, ensured>>
transferVars == <<dl, cap, ls, held, del>>

NewUpload ==
    [pc |-> "start", sess |-> NoSession, path |-> <<>>, dir |-> <<>>,
     fileModes |-> FileModes(AbsentModes), resolved |-> NoMatch,
     trace |-> <<>>, hit |-> FALSE, ensuredBefore |-> FALSE,
     promise |-> NewPromise]

Has(trace, ev) == \E i \in 1..Len(trace) : trace[i] = ev

\* the file a download reads: chunk k of it is the number k
RemoteContent(n) == [k \in 1..n |-> k]

IdleDownload ==
    [pc |-> "idle", sess |-> NoSession, size |-> 0,
     onError |-> FALSE, onEnd |-> FALSE, onPipeError |-> FALSE,
     errored |-> FALSE, ended |-> FALSE, pipeErrored |-> FALSE,
     delivered |-> 0, written |-> 0,
     tmpFile |-> "none", tmpCall |-> "none", reading |-> FALSE,
     comp |-> NewPromise, tmpResult |-> NewPromise, promise |-> NewPromise]

IdleCapability ==
    [pc |-> "idle", options |-> AbsentModes, connect |-> NoConnect,
     keyHash |-> <<>>, verified |-> "none",
     opens |-> 0, downloads |-> 0, closes |-> 0,
     closeFailed |-> FALSE, download |-> NewPromise, promise |-> NewPromise]

IdleListing == [pc |-> "idle", raw |-> <<>>, result |-> <<>>, failed |-> FALSE]

\* no deleteFile call in flight: deleted is the transport's answer to delete()
IdleDelete ==
    [pc |-> "idle", raw |-> <<>>, path |-> <<>>, deleted |-> "none",
     promise |-> NewPromise]

NoUploadInFlight == up = EmptyBag

\* the calls in flight
Uploads == BagToSet(up)

\* call u goes on as v
Becomes(u, v) == (up (-) SetToBag({u})) (+) SetToBag({v})

\* The caller runs uploads (several at once) or one listing or download at a
\* time, never both kinds together: they share no state of the client.
NoTransferInFlight ==
    dl.pc = "idle" /\ cap.pc = "idle" /\ ls.pc = "idle" /\ del.pc = "idle"

\* ------------------------------------------------------------------------
\* uploadFile (lines 291-387)
\* ------------------------------------------------------------------------

\* the mode resolution, the put request and the suspension on it
\* (lines 329-364), entered once the parent directory is settled
IssuePut(u) ==
    [u EXCEPT !.resolved = ResolveMode(u.fileModes, u.path),
              !.trace = Append(@, "put"),
              !.pc = "put"]

\* CheckRemoteDir that also skips the check while another call of the
\* session is checking the same directory
CheckRemoteDirReserved(u, cache) ==
    IF \/ u.dir \in cache
       \/ \E v \in Uploads :
             v.sess = u.sess /\ v.dir = u.dir /\ v.pc \in {"list", "mkdir"}
    THEN IssuePut(u)
    ELSE [u EXCEPT !.trace = Append(@, "list"), !.pc = "list"]

\* if (true !== this._checkedRemoteDirs[REMOTE_DIR]) { list ... } else go on
CheckRemoteDir(u, cache) ==
    IF u.dir \in cache
    THEN IssuePut(u)
    ELSE [u EXCEPT !.trace = Append(@, "list"), !.pc = "list"]

\* uploadFile(path, data) up to its first await
UploadStart(s, raw) ==
    /\ BagCardinality(up) < MaxUploads
    /\ NoTransferInFlight
    /\ sessState[s] = "open"
    /\ LET dir == toSFTPPath(Dirname(raw))
           u0 == [NewUpload EXCEPT
                      !.sess = s,
                      !.dir = dir,
                      !.path = toSFTPPath(raw),
                      !.fileModes = FileModes(modes),
                      !.hit = dir \in checkedRemoteDirs[s],
                      !.ensuredBefore = dir \in ensured[s]]
       IN  up' = up (+) SetToBag({CheckRemoteDir(u0, checkedRemoteDirs[s])})
    /\ UNCHANGED <<sessionVars, transferVars>>

\* MarkChecked that forgets to mark
MarkNothing(cache, s, dir) == cache

\* this._checkedRemoteDirs[REMOTE_DIR] = true
MarkChecked(cache, s, dir) == [cache EXCEPT ![s] = @ \cup {dir}]

\* await this.client.list(REMOTE_DIR) returned
ListOk(u) ==
    /\ u.pc = "list"
    /\ checkedRemoteDirs' = MarkChecked(checkedRemoteDirs, u.sess, u.dir)
    /\ ensured' = [ensured EXCEPT ![u.sess] = @ \cup {u.dir}]
    /\ up' = Becomes(u, IssuePut([u EXCEPT !.trace = Append(@, "list.ok")]))
    /\ UNCHANGED <<modes, options, sessState, transferVars>>

\* OnListFailed with an empty catch: the failed listing is ignored
OnListFailedNoMkdir(u) == IssuePut([u EXCEPT !.trace = Append(@, "list.fail")])

\* the catch of the failed listing: no, try to create
OnListFailed(u) == [u EXCEPT !.trace = @ \o <<"list.fail", "mkdir">>, !.pc = "mkdir"]

\* await this.client.list(REMOTE_DIR) threw
ListFail(u) ==
    /\ u.pc = "list"
    /\ up' = Becomes(u, OnListFailed(u))
    /\ UNCHANGED <<sessionVars, transferVars>>

\* await this.client.mkdir(REMOTE_DIR, true) returned
MkdirOk(u) ==
    /\ u.pc = "mkdir"
    /\ checkedRemoteDirs' = MarkChecked(checkedRemoteDirs, u.sess, u.dir)
    /\ ensured' = [ensured EXCEPT ![u.sess] = @ \cup {u.dir}]
    /\ up' = Becomes(u, IssuePut([u EXCEPT !.trace = Append(@, "mkdir.ok")]))
    /\ UNCHANGED <<modes, options, sessState, transferVars>>

\* MkdirFail with the mark written although the mkdir threw
MkdirFailMarks(u) ==
    /\ u.pc = "mkdir"
    /\ checkedRemoteDirs' = MarkChecked(checkedRemoteDirs, u.sess, u.dir)
    /\ up' = Becomes(u,
                [u EXCEPT !.trace = Append(@, "mkdir.fail"),
                          !.promise = Completed(@, "mkdir", <<>>),
                          !.pc = "done"])
    /\ UNCHANGED <<modes, options, sessState, ensured, transferVars>>

\* await this.client.mkdir(REMOTE_DIR, true) threw: catch (e) { COMPLETED(e) }
MkdirFail(u) ==
    /\ u.pc = "mkdir"
    /\ up' = Becomes(u,
                [u EXCEPT !.trace = Append(@, "mkdir.fail"),
                          !.promise = Completed(@, "mkdir", <<>>),
                          !.pc = "done"])
    /\ UNCHANGED <<sessionVars, transferVars>>

\* AfterPut without the test of modeToSet
AfterPutAlwaysChmod(u) == [u EXCEPT !.trace = Append(@, "chmod"), !.pc = "chmod"]

\* after the put: if (false !== modeToSet) { chmod(...) } else { COMPLETED(null) }
AfterPut(u) ==
    IF u.resolved.mode.kind # "false"
    THEN [u EXCEPT !.trace = Append(@, "chmod"), !.pc = "chmod"]
    ELSE [u EXCEPT !.promise = Completed(@, NoError, <<>>), !.pc = "done"]

\* await this.client.put(data, path) returned
PutOk(u) ==
    /\ u.pc = "put"
    /\ up' = Becomes(u, AfterPut([u EXCEPT !.trace = Append(@, "put.ok")]))
    /\ UNCHANGED <<sessionVars, transferVars>>

\* PutFail with the error of the put swallowed: the upload goes on
PutFailIgnored(u) ==
    /\ u.pc = "put"
    /\ up' = Becomes(u, AfterPut([u EXCEPT !.trace = Append(@, "put.fail")]))
    /\ UNCHANGED <<sessionVars, transferVars>>

\* await this.client.put(data, path) threw: catch (e) { COMPLETED(e) }
PutFail(u) ==
    /\ u.pc = "put"
    /\ up' = Becomes(u,
                [u EXCEPT !.trace = Append(@, "put.fail"),
                          !.promise = Completed(@, "put", <<>>),
                          !.pc = "done"])
    /\ UNCHANGED <<sessionVars, transferVars>>

\* the chmod callback: (err) => { if (err) { trace(err) } COMPLETED(err) }
ChmodCallback(p, err) == Completed(p, err, <<>>)

ChmodDone(u, err) ==
    /\ u.pc = "chmod"
    /\ up' = Becomes(u,
                [u EXCEPT !.trace = Append(@, IF err = NoError THEN "chmod.ok"
                                                              ELSE "chmod.fail"),
                          !.promise = ChmodCallback(@, err),
                          !.pc = "done"])
    /\ UNCHANGED <<sessionVars, transferVars>>

\* the caller has received the settled promise: the call is over
UploadReturn(u) ==
    /\ u.pc = "done"
    /\ up' = up (-) SetToBag({u})
    /\ UNCHANGED <<sessionVars, transferVars>>

UploadNext ==
    \/ \E raw \in RawPaths : UploadStart(ListingSession, raw)
    \/ \E u \in Uploads : ListOk(u)
    \/ \E u \in Uploads : ListFail(u)
    \/ \E u \in Uploads : MkdirOk(u)
    \/ \E u \in Uploads : MkdirFail(u)
    \/ \E u \in Uploads : PutOk(u)
    \/ \E u \in Uploads : PutFail(u)
    \/ \E u \in Uploads, err \in {NoError, "chmod"} : ChmodDone(u, err)
    \/ \E u \in Uploads : UploadReturn(u)

\* ------------------------------------------------------------------------
\* downloadFile (lines 165-213)
\* ------------------------------------------------------------------------

\* downloadFile(path) up to `await ME.client.get(path, null, null)`
BeginDownload(s, n) ==
    [IdleDownload EXCEPT !.pc = "get", !.sess = s, !.size = n]

\* the caller downloads on the listing client
DownloadStart(n) ==
    /\ NoUploadInFlight
    /\ NoTransferInFlight
    /\ sessState[ListingSession] = "open"
    /\ dl' = BeginDownload(ListingSession, n)
    /\ UNCHANGED <<sessionVars, up, cap, ls, held, del>>

\* get() returned STREAM: the 'error' listener is registered and
\* invokeForTempFile is called, which first asks for a temp file name
GetOk ==
    /\ dl.pc = "get"
    /\ dl' = [dl EXCEPT !.onError = TRUE, !.tmpCall = "naming", !.pc = "tmp"]
    /\ UNCHANGED <<sessionVars, up, cap, ls, held, del>>

\* get() threw: catch (e) { COMPLETED(e) }
GetFail ==
    /\ dl.pc = "get"
    /\ dl' = [dl EXCEPT !.promise = Completed(@, "get", <<>>), !.pc = "finished"]
    /\ UNCHANGED <<sessionVars, up, cap, ls, held, del>>

\* OnStreamError as STREAM.once('error', reject)
OnStreamErrorUnguarded(p, err) == Reject(p, err)

\* OnStreamError with no listener for the stream's 'error'
OnStreamErrorIgnored(p, err) == p

\* STREAM.once('error', (err) => { COMPLETED(err) })
OnStreamError(p, err) == Completed(p, err, <<>>)

\* the remote stream emits 'error'
StreamError ==
    /\ dl.onError
    /\ dl' = [dl EXCEPT !.errored = TRUE,
                        !.onError = FALSE,
                        !.promise = OnStreamError(@, "stream")]
    /\ UNCHANGED <<sessionVars, up, cap, ls, held, del>>

\* invokeForTempFile has a name and runs the body (lines 181-204):
\* STREAM.pipe(FS.createWriteStream(tmpFile)) creates the file, and the
\* listeners of the pipe's 'error' and of the stream's 'end' are registered
TempFileBody ==
    /\ dl.tmpCall = "naming"
    /\ dl' = [dl EXCEPT !.tmpCall = "running",
                        !.tmpFile = "exists",
                        !.onPipeError = TRUE,
                        !.onEnd = TRUE]
    /\ UNCHANGED <<sessionVars, up, cap, ls, held, del>>

\* the body threw before anything was set up: catch (e) { COMP(e) }
TempFileBodyThrows ==
    /\ dl.tmpCall = "naming"
    /\ dl' = [dl EXCEPT !.tmpCall = "running",
                        !.comp = Completed(@, "body", <<>>)]
    /\ UNCHANGED <<sessionVars, up, cap, ls, held, del>>

\* invokeForTempFile could not get a temp file: its promise rejects
TempFileNameFail ==
    /\ dl.tmpCall = "naming"
    /\ dl' = [dl EXCEPT !.tmpCall = "settled",
                        !.tmpResult = Reject(@, "tmp")]
    /\ UNCHANGED <<sessionVars, up, cap, ls, held, del>>

\* the piped stream delivers its next chunk: pipe() hands it to the write
\* stream, which queues it
StreamData ==
    /\ dl.tmpCall \in {"running", "settled"}
    /\ dl.tmpFile # "none"
    /\ ~dl.ended
    /\ ~dl.pipeErrored
    /\ dl.delivered < dl.size
    /\ dl' = [dl EXCEPT !.delivered = @ + 1]
    /\ UNCHANGED <<sessionVars, up, cap, ls, held, del>>

\* the write stream has written its oldest queued chunk to the temp file
WriteFlush ==
    /\ dl.tmpFile # "none"
    /\ ~dl.pipeErrored
    /\ dl.written < dl.delivered
    /\ dl' = [dl EXCEPT !.written = @ + 1]
    /\ UNCHANGED <<sessionVars, up, cap, ls, held, del>>

\* PIPE.once('error', (err) => { COMP(err) })
OnPipeError(p, err) == Completed(p, err, <<>>)

\* the write stream emits 'error'
PipeError ==
    /\ dl.onPipeError
    /\ dl' = [dl EXCEPT !.pipeErrored = TRUE,
                        !.onPipeError = FALSE,
                        !.comp = OnPipeError(@, "pipe")]
    /\ UNCHANGED <<sessionVars, up, cap, ls, held, del>>

\* STREAM.once('end', () => { readFile(tmpFile).then(...).catch(...) }):
\* the stream has delivered everything and emits 'end'; the read-back starts
StreamEnd ==
    /\ dl.onEnd
    /\ ~dl.ended
    /\ ~dl.pipeErrored
    /\ dl.delivered = dl.size
    /\ dl' = [dl EXCEPT !.ended = TRUE, !.onEnd = FALSE, !.reading = TRUE]
    /\ UNCHANGED <<sessionVars, up, cap, ls, held, del>>

\* what readFile(tmpFile) finds in the file when it reads it
FileContent(d) == RemoteContent(d.written)

\* .then((data) => { COMP(null, data) })
OnReadFile(p, data) == Completed(p, NoError, data)

\* readFile(tmpFile) answers with what the file holds now
ReadFileOk ==
    /\ dl.reading
    /\ dl.tmpFile = "exists"
    /\ dl' = [dl EXCEPT !.reading = FALSE,
                        !.comp = OnReadFile(@, FileContent(dl))]
    /\ UNCHANGED <<sessionVars, up, cap, ls, held, del>>

\* .catch((err) => { COMP(err) })
ReadFileFail ==
    /\ dl.reading
    /\ dl' = [dl EXCEPT !.reading = FALSE,
                        !.comp = Completed(@, "read", <<>>)]
    /\ UNCHANGED <<sessionVars, up, cap, ls, held, del>>

\* invokeForTempFile after its body settled: the temp file is deleted, then
\* the body's outcome becomes the outcome of invokeForTempFile
TempFileDone(d) ==
    [d EXCEPT !.tmpCall = "settled",
              !.tmpFile = "deleted",
              !.tmpResult = IF d.comp.state = "resolved"
                            THEN Resolve(@, d.comp.value)
                            ELSE Reject(@, d.comp.err)]

TempFileFinish ==
    /\ dl.tmpCall = "running"
    /\ dl.comp.state # "pending"
    /\ dl' = TempFileDone(dl)
    /\ UNCHANGED <<sessionVars, up, cap, ls, held, del>>

\* `await invokeForTempFile(...)` is over: COMPLETED(null, DOWNLOADED_DATA),
\* or catch (e) { COMPLETED(e) }
AfterTempFile(d) ==
    [d EXCEPT !.pc = "finished",
              !.promise = IF d.tmpResult.state = "resolved"
                          THEN Completed(@, NoError, d.tmpResult.value)
                          ELSE Completed(@, d.tmpResult.err, <<>>)]

DownloadContinue ==
    /\ dl.pc = "tmp"
    /\ dl.tmpCall = "settled"
    /\ dl' = AfterTempFile(dl)
    /\ UNCHANGED <<sessionVars, up, cap, ls, held, del>>

\* the caller has received the settled promise of its download
DownloadReturn ==
    /\ cap.pc = "idle"
    /\ dl.promise.state # "pending"
    /\ dl' = IdleDownload
    /\ UNCHANGED <<sessionVars, up, cap, ls, held, del>>

DownloadNext ==
    \/ \E n \in 0..MaxChunks : DownloadStart(n)
    \/ GetOk
    \/ GetFail
    \/ StreamError
    \/ TempFileBody
    \/ TempFileBodyThrows
    \/ TempFileNameFail
    \/ StreamData
    \/ WriteFlush
    \/ PipeError
    \/ StreamEnd
    \/ ReadFileOk
    \/ ReadFileFail
    \/ TempFileFinish
    \/ DownloadContinue
    \/ DownloadReturn

\* ------------------------------------------------------------------------
\* listDirectory (lines 216-283) and the download capability of a File entry
\* (lines 240-258)
\* ------------------------------------------------------------------------
TypeCodes == {"d", "-", "l"}

RawEntry(k, t) == [name |-> k, type |-> t]

\* what client.list(path) can answer: up to MaxEntries raw entries
RawLists ==
    UNION { { [k \in 1..n |-> RawEntry(k, f[k])] : f \in [1..n -> TypeCodes] } :
            n \in 0..MaxEntries }

\* ToFileSystemInfo with every entry that is no directory taken for a file
ToFileSystemInfoFileElse(FI) ==
    IF FI.type = "d"
    THEN [name |-> FI.name, type |-> "Directory", download |-> FALSE]
    ELSE [name |-> FI.name, type |-> "File", download |-> TRUE]

\* the entry pushed for one raw entry FI
ToFileSystemInfo(FI) ==
    IF FI.type = "d"
    THEN [name |-> FI.name, type |-> "Directory", download |-> FALSE]
    ELSE IF FI.type = "-"
         THEN [name |-> FI.name, type |-> "File", download |-> TRUE]
         ELSE [name |-> FI.name, type |-> "untyped", download |-> FALSE]

\* for (const FI of LIST) { RESULT.push(...) }
ListResult(LIST) == [k \in 1..Len(LIST) |-> ToFileSystemInfo(LIST[k])]

\* listDirectory(path) up to `await ME.client.list(path)`
ListDirectoryStart ==
    /\ NoUploadInFlight
    /\ NoTransferInFlight
    /\ sessState[ListingSession] = "open"
    /\ ls' = [ls EXCEPT !.pc = "list"]
    /\ UNCHANGED <<sessionVars, up, dl, cap, held, del>>

\* the transport answered LIST: the entries are built and returned
ListDirectoryOk(LIST) ==
    /\ ls.pc = "list"
    /\ ls' = [pc |-> "done", raw |-> LIST, result |-> ListResult(LIST),
              failed |-> FALSE]
    /\ UNCHANGED <<sessionVars, up, dl, cap, held, del>>

\* the transport's list threw: listDirectory rejects
ListDirectoryFail ==
    /\ ls.pc = "list"
    /\ ls' = [ls EXCEPT !.pc = "done", !.failed = TRUE]
    /\ UNCHANGED <<sessionVars, up, dl, cap, held, del>>

\* the caller has received the listing and keeps its File entries
ListDirectoryReturn ==
    /\ ls.pc = "done"
    /\ held' = IF ls.failed THEN held
               ELSE \E k \in 1..Len(ls.result) : ls.result[k].download
    /\ ls' = IdleListing
    /\ UNCHANGED <<sessionVars, up, dl, cap, del>>

\* openConnection(opts) up to its first await: the options are resolved,
\* then the key file is read if there is one, else connect is called
StartOpenConnection(c, opts) ==
    IF HasPrivateKeyFile(opts)
    THEN [c EXCEPT !.pc = "readingKey"]
    ELSE [c EXCEPT !.pc = "opening", !.connect = ConnectConfig(opts)]

\* download() of a File entry up to the first await of openConnection(ME.options)
CapabilityInvoke ==
    /\ held
    /\ NoUploadInFlight
    /\ NoTransferInFlight
    /\ cap' = StartOpenConnection([cap EXCEPT !.options = modes], options)
    /\ UNCHANGED <<sessionVars, up, dl, ls, held, del>>

\* privateKey = await readFile(privateKeyFile) returned: connect is called
KeyReadOk ==
    /\ cap.pc = "readingKey"
    /\ cap' = [cap EXCEPT !.pc = "opening", !.connect = ConnectConfig(options)]
    /\ UNCHANGED <<sessionVars, up, dl, ls, held, del>>

\* during the handshake the transport presents the digest of the server's
\* host key to hostVerifier
HostVerify(keyHash) ==
    /\ cap.pc = "opening"
    /\ cap.verified = "none"
    /\ cap' = [cap EXCEPT !.keyHash = keyHash,
                          !.verified = IF hostVerifier(cap.connect.hashes, keyHash)
                                       THEN "accepted" ELSE "rejected"]
    /\ UNCHANGED <<sessionVars, up, dl, ls, held, del>>

\* CreateClient with _checkedRemoteDirs a static field, shared by all clients
CreateClientSharedCache(cache, s) == [cache EXCEPT ![s] = cache[ListingSession]]

\* createClient(opts): a new SFTPClient, its _checkedRemoteDirs = {}
CreateClient(cache, s) == [cache EXCEPT ![s] = {}]

\* openConnection returned CLIENT; CLIENT.downloadFile(...) is called
CapabilityOpened(n) ==
    /\ cap.pc = "opening"
    /\ cap.verified = "accepted"
    /\ sessState' = [sessState EXCEPT ![TempSession] = "open"]
    /\ checkedRemoteDirs' = CreateClient(checkedRemoteDirs, TempSession)
    /\ ensured' = [ensured EXCEPT ![TempSession] = {}]
    /\ dl' = BeginDownload(TempSession, n)
    /\ cap' = [cap EXCEPT !.pc = "downloading", !.opens = @ + 1, !.downloads = @ + 1]
    /\ UNCHANGED <<modes, options, up, ls, held, del>>

\* OnOpenFailed with the await of openConnection inside the try, so that the
\* finally block calls end()
OnOpenFailedCloses(c, err) ==
    [c EXCEPT !.pc = "done", !.closes = @ + 1, !.promise = Reject(@, err)]

\* `const CLIENT = await openConnection(ME.options)` threw, before the try:
\* download() rejects with the error
OnOpenFailed(c, err) == [c EXCEPT !.pc = "done", !.promise = Reject(@, err)]

\* readFile(privateKeyFile) threw: openConnection rejects, connect is not called
KeyReadFail ==
    /\ cap.pc = "readingKey"
    /\ cap' = OnOpenFailed(cap, "keyread")
    /\ UNCHANGED <<sessionVars, up, dl, ls, held, del>>

\* connect threw: the handshake failed, at the latest when hostVerifier
\* answered false
CapabilityOpenFail ==
    /\ cap.pc = "opening"
    /\ cap' = OnOpenFailed(cap, "connect")
    /\ UNCHANGED <<sessionVars, up, dl, ls, held, del>>

\* AfterDownload with the end() after the await instead of in a finally
AfterDownloadNoFinally(c, p) ==
    IF p.state = "rejected"
    THEN [c EXCEPT !.pc = "done", !.download = p, !.promise = Reject(@, p.err)]
    ELSE [c EXCEPT !.pc = "closing", !.closes = @ + 1, !.download = p]

\* try { return await CLIENT.downloadFile(...) } finally { await end() }:
\* whatever the outcome p of the download, end() is called
AfterDownload(c, p) ==
    [c EXCEPT !.pc = "closing", !.closes = @ + 1, !.download = p]

\* the download settled
CapabilityFinally ==
    /\ cap.pc = "downloading"
    /\ dl.promise.state # "pending"
    /\ cap' = AfterDownload(cap, dl.promise)
    /\ UNCHANGED <<sessionVars, up, dl, ls, held, del>>

\* the outcome of download() once the finally block is through
CapabilityOutcome(c) ==
    IF c.download.state = "resolved"
    THEN Resolve(c.promise, c.download.value)
    ELSE Reject(c.promise, c.download.err)

\* end() returned, or it threw and the error was traced
CapabilityClosed(failed) ==
    /\ cap.pc = "closing"
    /\ sessState' = [sessState EXCEPT ![TempSession] = "closed"]
    /\ cap' = [cap EXCEPT !.pc = "done",
                          !.closeFailed = failed,
                          !.promise = CapabilityOutcome(cap)]
    /\ UNCHANGED <<modes, options, checkedRemoteDirs, ensured, up, dl, ls, held, del>>

\* the caller has received the settled promise of download(); the temporary
\* client is garbage
CapabilityReturn ==
    /\ cap.pc = "done"
    /\ cap' = IdleCapability
    /\ dl' = IdleDownload
    /\ sessState' = [sessState EXCEPT ![TempSession] = "none"]
    /\ UNCHANGED <<modes, options, checkedRemoteDirs, ensured, up, ls, held, del>>

ListingNext ==
    \/ ListDirectoryStart
    \/ \E LIST \in RawLists : ListDirectoryOk(LIST)
    \/ ListDirectoryFail
    \/ ListDirectoryReturn
    \/ CapabilityInvoke
    \/ KeyReadOk
    \/ KeyReadFail
    \/ \E keyHash \in KeyHashes : HostVerify(keyHash)
    \/ \E n \in 0..MaxChunks : CapabilityOpened(n)
    \/ CapabilityOpenFail
    \/ CapabilityFinally
    \/ \E failed \in BOOLEAN : CapabilityClosed(failed)
    \/ CapabilityReturn

\* ---------------------------------------------------------------------
\* deleteFile
\* ---------------------------------------------------------------------

\* deleteFile(path): path = toSFTPPath(path); await this.client.delete(path)
DeleteStart(raw) ==
    /\ NoUploadInFlight
    /\ NoTransferInFlight
    /\ sessState[ListingSession] = "open"
    /\ del' = [IdleDelete EXCEPT !.pc = "delete", !.raw = raw,
                                 !.path = toSFTPPath(raw),
                                 !.promise.invoked = TRUE]
    /\ UNCHANGED <<sessionVars, up, dl, cap, ls, held>>

\* try { await this.client.delete(path); return true; }
DeleteOk ==
    /\ del.pc = "delete"
    /\ del' = [del EXCEPT !.deleted = "ok", !.pc = "done",
                          !.promise = Resolve(@, <<TRUE>>)]
    /\ UNCHANGED <<sessionVars, up, dl, cap, ls, held>>

\* OnDeleteFailed with the error thrown on to the caller
OnDeleteFailedRethrow(p) == Reject(p, "delete")

\* catch (e) { return false; }
OnDeleteFailed(p) == Resolve(p, <<FALSE>>)

\* the transport's delete() failed
DeleteFail ==
    /\ del.pc = "delete"
    /\ del' = [del EXCEPT !.deleted = "fail", !.pc = "done",
                          !.promise = OnDeleteFailed(@)]
    /\ UNCHANGED <<sessionVars, up, dl, cap, ls, held>>

\* the caller has the answer and drops the call
DeleteReturn ==
    /\ del.pc = "done"
    /\ del' = IdleDelete
    /\ UNCHANGED <<sessionVars, up, dl, cap, ls, held>>

DeleteNext ==
    \/ \E raw \in RawPaths : DeleteStart(raw)
    \/ DeleteOk
    \/ DeleteFail
    \/ DeleteReturn

Next == UploadNext \/ DownloadNext \/ ListingNext \/ DeleteNext

Init ==
    /\ modes \in ModeSettings
    /\ options \in ConnectionSettings
    /\ modes = AbsentModes \/ options = DefaultOptions
    /\ sessState = [s \in Sessions |-> IF s = ListingSession THEN "open" ELSE "none"]
    /\ checkedRemoteDirs = [s \in Sessions |-> {}]
    /\ ensured = [s \in Sessions |-> {}]
    /\ up = EmptyBag
    /\ dl = IdleDownload
    /\ cap = IdleCapability
    /\ ls = IdleListing
    /\ held = FALSE
    /\ del = IdleDelete

Spec == Init /\ [][Next]_vars

\* What downloadFile waits for does happen: the transport answers the get,
\* invokeForTempFile runs its body or fails, the stream emits 'end' or
\* 'error', the read-back of the temp file returns, invokeForTempFile
\* finishes once its body settled, and the awaiting code is resumed.  Nothing
\* is assumed about chunks being delivered or written.
DownloadFairness ==
    /\ WF_vars(GetOk \/ GetFail)
    /\ WF_vars(TempFileBody \/ TempFileBodyThrows \/ TempFileNameFail)
    /\ WF_vars(StreamEnd \/ StreamError)
    /\ WF_vars(ReadFileOk \/ ReadFileFail)
    /\ WF_vars(TempFileFinish)
    /\ WF_vars(DownloadContinue)

\* the downloads of the caller on the listing client, under these assumptions
DownloadSpec == Init /\ [][DownloadNext]_vars /\ DownloadFairness

\* ------------------------------------------------------------------------
\* Properties
\* ------------------------------------------------------------------------
\* C1: when the put succeeded and the chmod callback reports an error, the
\* upload still completes successfully (the chmod error is only logged).
C1_ChmodFailureKeepsUploadSuccessful ==
    \A u \in Uploads :
        (u.pc = "done" /\ Has(u.trace, "put.ok")
                           /\ Has(u.trace, "chmod.fail"))
            => u.promise.state = "resolved"

\* C2: once a downloadFile call that created a temp file has resolved or
\* rejected, the temp file no longer exists.
C2_TempFileGoneOnCompletion ==
    (dl.promise.state # "pending" /\ dl.tmpFile # "none")
        => dl.tmpFile = "deleted"

\* C3: the promise of every uploadFile call and of every downloadFile call is
\* settled at most once, whatever callbacks and stream events occur.
C3_SettledAtMostOnce ==
    /\ \A u \in Uploads : u.promise.settles <= 1
    /\ dl.promise.settles <= 1
    /\ dl.comp.settles <= 1

\* C3 witness: a download whose stream emitted 'error' and whose staging
\* also ran to its end, so that COMPLETED was invoked twice.
C3_Witness ==
    /\ dl.errored
    /\ dl.pc = "finished"
    /\ dl.tmpCall = "settled"
    /\ dl.promise.settles = 1

\* C4: when downloadFile resolves, the returned bytes are exactly the full
\* content of the remote file.
C4_DownloadYieldsWholeFile ==
    dl.promise.state = "resolved" => dl.promise.value = RemoteContent(dl.size)

\* C5: an upload that misses the cache lists the parent; a mkdir is attempted
\* exactly after a failed listing; the parent is marked in the cache exactly
\* when a listing or a mkdir of it succeeded; a failed mkdir rejects the
\* upload, issues no put and marks nothing.
C5_EnsureRemoteDir ==
    /\ \A s \in Sessions : checkedRemoteDirs[s] = ensured[s]
    /\ \A u \in Uploads :
        LET t == u.trace
        IN  /\ ~u.hit => t[1] = "list"
            /\ \A k \in 1..Len(t) :
                  t[k] = "mkdir" => k > 1 /\ t[k - 1] = "list.fail"
            /\ \A k \in 1..Len(t) :
                  t[k] = "list.fail" => Len(t) > k /\ t[k + 1] = "mkdir"
            /\ (Has(t, "list.ok") \/ Has(t, "mkdir.ok"))
                  => u.dir \in checkedRemoteDirs[u.sess]
            /\ Has(t, "mkdir.fail")
                  => /\ u.pc = "done"
                     /\ u.promise.state = "rejected"
                     /\ ~Has(t, "put")
                     /\ u.dir \notin ensured[u.sess]
                           => u.dir \notin checkedRemoteDirs[u.sess]

\* C5 witness: an upload whose listing and mkdir both failed, with the parent
\* left unmarked.
C5_Witness ==
    \E u \in Uploads :
        /\ Has(u.trace, "mkdir.fail")
        /\ u.promise.state = "rejected"
        /\ u.dir \notin checkedRemoteDirs[u.sess]

\* C6: an upload started after its parent directory was ensured in the
\* session (listed or created successfully) issues neither a list nor a mkdir.
C6_CacheHitSkipsCheck ==
    \A u \in Uploads :
        u.ensuredBefore
            => /\ ~Has(u.trace, "list")
               /\ ~Has(u.trace, "mkdir")
               /\ u.trace[1] = "put"

\* C6 witness: a later upload under an ensured parent has done its put.
C6_Witness ==
    \E u \in Uploads :
        /\ u.ensuredBefore
        /\ Has(u.trace, "put.ok")
        /\ u.pc = "done"

\* C7: download() of a File entry opens a new client from the listing
\* client's options, downloads on it and never on the listing client, closes
\* it exactly once whether the download succeeded or failed, and settles as
\* the download did even when the close failed.
C7_CapabilityOwnSession ==
    /\ cap.opens <= 1
    /\ cap.closes <= cap.opens
    /\ cap.pc # "idle" => cap.options = modes
    /\ cap.pc \in {"downloading", "closing"} => cap.opens = 1
    /\ cap.opens = 1
         => /\ dl.sess = TempSession
            /\ cap.downloads = 1
    /\ cap.pc = "downloading" => cap.closes = 0 /\ sessState[TempSession] = "open"
    /\ cap.pc = "closing" => cap.closes = 1 /\ cap.download = dl.promise
    /\ (cap.pc = "done" /\ cap.opens = 1)
         => /\ cap.closes = 1
            /\ sessState[TempSession] = "closed"
            /\ cap.download = dl.promise
            /\ cap.promise.state = dl.promise.state
            /\ cap.promise.state = "rejected" => cap.promise.err = dl.promise.err
            /\ cap.promise.state = "resolved" => cap.promise.value = dl.promise.value

\* C7 witness: the download failed and the close failed too.
C7_Witness ==
    /\ cap.pc = "done"
    /\ cap.opens = 1
    /\ cap.closeFailed
    /\ cap.promise.state = "rejected"
    /\ cap.promise.err = "stream"

\* the first entry, in the order the map declares them, whose rooted pattern
\* matches the path
DeclaredFirstMatch(m, path) == MatchLoop(m.entries, path)

\* C8: with a pattern map, the permission is the value of the first pattern
\* in declared order that matches the remote path.
C8_FirstDeclaredMatchWins ==
    \A u \in Uploads :
        (Has(u.trace, "put") /\ modes.kind = "map")
            => u.resolved = DeclaredFirstMatch(modes, u.path)

NoPatternMatches(m, path) ==
    \A k \in 1..Len(m.entries) :
        ~doesMatch(path, RootPattern(m.entries[k].pattern))

\* C9: without a mode spec, or with a map none of whose patterns matches,
\* uploadFile issues no chmod and completes successfully right after the put.
C9_NoModeNoChmod ==
    \A u \in Uploads :
        ( /\ Has(u.trace, "put")
          /\ \/ modes.kind = "absent"
             \/ modes.kind = "map" /\ NoPatternMatches(modes, u.path) )
            => /\ u.resolved.mode = NoMode
               /\ ~Has(u.trace, "chmod")
               /\ Has(u.trace, "put.ok")
                     => u.pc = "done" /\ u.promise.state = "resolved"

\* C9 witness: a map that does not match the path, and the put succeeded.
C9_Witness ==
    \E u \in Uploads :
        /\ modes.kind = "map"
        /\ NoPatternMatches(modes, u.path)
        /\ Has(u.trace, "put.ok")

\* C10: with a single permission value, every uploaded path resolves to that
\* value parsed as octal.
C10_SingleModeEveryPath ==
    \A u \in Uploads :
        (Has(u.trace, "put") /\ modes.kind = "single")
            => /\ u.resolved.matched
               /\ u.resolved.mode = ParseIntOctal(Trim(modes.value))
               /\ modes.value = <<6, 4, 4>> => u.resolved.mode = NumMode(420)

\* C10 witness: a dotfile directly under the root got the single value.
C10_Witness ==
    \E u \in Uploads :
        /\ modes = SingleModes(<<6, 4, 4>>)
        /\ u.path = <<".x">>
        /\ Has(u.trace, "chmod")

\* C11: deleteFile never raises: its promise resolves, with true exactly when
\* the transport's delete of the normalized path succeeded and with false
\* when the transport's delete failed.
C11_DeleteNeverRaises ==
    /\ del.promise.state # "rejected"
    /\ del.pc # "idle" => del.path = SelectSeq(del.raw, IsName)
    /\ del.pc = "delete" => del.promise.state = "pending" /\ del.deleted = "none"
    /\ del.pc = "done" =>
          /\ del.promise.state = "resolved"
          /\ del.deleted \in {"ok", "fail"}
          /\ del.promise.value = <<del.deleted = "ok">>

\* C11 witness: the transport failed to delete and deleteFile answered false.
C11_Witness ==
    /\ del.pc = "done"
    /\ del.deleted = "fail"
    /\ del.promise.state = "resolved"
    /\ del.promise.value = <<FALSE>>

\* C12: the cache test of a call sees only the marks made before the call
\* started, and the mark is written only after the awaited check: every call
\* whose parent was not ensured when it started issues its own listing, and
\* its own mkdir after a failed listing, whatever other calls of the session
\* are in flight for the same parent.
C12_ConcurrentUploadsBothCheck ==
    \A u \in Uploads :
        /\ u.hit = u.ensuredBefore
        /\ ~u.ensuredBefore
             => /\ u.trace[1] = "list"
                /\ u.pc # "list"
                     => /\ u.trace[2] \in {"list.ok", "list.fail"}
                        /\ u.trace[2] = "list.fail" => u.trace[3] = "mkdir"
        /\ (u.pc \in {"list", "mkdir"} /\ u.dir \in checkedRemoteDirs[u.sess])
             => u.dir \in ensured[u.sess]

\* C12 witness: two calls in flight on one session for the same parent, both
\* past the cache test, both with a failed listing and both with a mkdir
\* issued, before either has marked the directory.
C12_Witness ==
    \E u, v \in Uploads :
        /\ u # v \/ CopiesIn(u, up) >= 2
        /\ u.sess = v.sess
        /\ u.dir = v.dir
        /\ u.pc = "mkdir"
        /\ v.pc = "mkdir"
        /\ u.dir \notin checkedRemoteDirs[u.sess]

\* C13: the cache belongs to one client: a client that has just been opened
\* (the temporary client of a download capability included) has an empty
\* cache, whatever the other clients have marked, and a step that marks a
\* directory changes the cache of the uploading call's own client only.
C13_CachePerSession ==
    /\ [](sessState[TempSession] = "open" => checkedRemoteDirs[TempSession] = {})
    /\ [][(sessState[TempSession] # "open" /\ sessState'[TempSession] = "open")
             => checkedRemoteDirs'[TempSession] = {}]_vars
    /\ [][\A s \in Sessions :
             checkedRemoteDirs'[s] # checkedRemoteDirs[s]
                => /\ \E u \in Uploads :
                         /\ u.sess = s
                         /\ u.pc \in {"list", "mkdir"}
                         /\ checkedRemoteDirs'[s] = checkedRemoteDirs[s] \cup {u.dir}
                   /\ \A t \in Sessions \ {s} :
                         checkedRemoteDirs'[t] = checkedRemoteDirs[t]]_vars

\* C13 witness: the temporary client of a capability is open with an empty
\* cache while the listing client has a directory marked.
C13_Witness ==
    /\ cap.pc = "downloading"
    /\ sessState[TempSession] = "open"
    /\ checkedRemoteDirs[ListingSession] # {}
    /\ checkedRemoteDirs[TempSession] = {}

\* C14: a listing that succeeded has exactly one entry per raw entry of the
\* transport, in the same order, and the shape of an entry follows from the
\* raw type code alone: 'd' gives a Directory, '-' a File that carries the
\* download capability, any other code an entry without a type and without
\* a capability.
C14_OneEntryPerRawEntry ==
    (ls.pc = "done" /\ ~ls.failed)
        => /\ Len(ls.result) = Len(ls.raw)
           /\ \A k \in 1..Len(ls.raw) :
                 LET FI == ls.raw[k]
                     e  == ls.result[k]
                 IN  /\ e.name = FI.name
                     /\ FI.type = "d" => e.type = "Directory" /\ ~e.download
                     /\ FI.type = "-" => e.type = "File" /\ e.download
                     /\ FI.type \notin {"d", "-"} => e.type = "untyped" /\ ~e.download

\* C14 witness: a listing of a symbolic link followed by a regular file.
C14_Witness ==
    /\ ls.pc = "done"
    /\ ~ls.failed
    /\ Len(ls.raw) = 2
    /\ ls.raw[1].type = "l"
    /\ ls.raw[2].type = "-"
    /\ ls.result[2].download

\* the digests the configuration accepts: the entries of options.hashes in
\* normalized form, entries that are blank left out
ConfiguredDigests ==
    { normalizeString(h) : h \in Range(asArray(options.hashes)) } \ { <<>> }

\* C15: the host verifier accepts every host key when no digest is
\* configured, and otherwise accepts a key exactly when its normalized digest
\* is one of the normalized configured digests; after a rejected key the
\* connect fails, no client is returned and nothing is downloaded.
C15_HostVerifier ==
    /\ cap.verified # "none"
         => (cap.verified = "accepted"
               <=> \/ ConfiguredDigests = {}
                   \/ normalizeString(cap.keyHash) \in ConfiguredDigests)
    /\ cap.verified = "rejected"
         => /\ cap.pc \in {"opening", "done"}
            /\ cap.opens = 0
            /\ cap.downloads = 0
            /\ sessState[TempSession] # "open"
            /\ cap.pc = "done"
                 => cap.promise.state = "rejected" /\ cap.promise.err = "connect"

\* C15 witness: digests are configured, the server's key has another one,
\* and the capability has failed with the connection error.
C15_Witness ==
    /\ cap.pc = "done"
    /\ cap.verified = "rejected"
    /\ cap.keyHash = <<"ef">>
    /\ ConfiguredDigests # {}
    /\ cap.promise.state = "rejected"

\* connect was called: cap.connect is its argument
ConnectCalled == cap.pc \in {"opening", "downloading", "closing", "done"} /\ cap.connect # NoConnect

AllDigits(s) == s # <<>> /\ \A k \in 1..Len(s) : s[k] \in 0..9

\* a number option that is left out or does not start with a digit
Unparseable(v) == ~v.given \/ DigitPrefix(TrimLeft(v.str)) = <<>>

\* C16 as stated: defaults for a blank host and for an absent or unparseable
\* port and timeout, and every other configured value passed to connect
\* exactly as it was configured.
C16_PassedUnchanged ==
    ConnectCalled
        => /\ cap.connect.host = IF isEmptyString(toStringSafe(options.host))
                                 THEN <<"127.0.0.1">>
                                 ELSE options.host.str
           /\ IF Unparseable(options.port)
              THEN cap.connect.port = 22
              ELSE /\ AllDigits(options.port.str)
                   /\ cap.connect.port = DecimalValue(options.port.str)
           /\ IF Unparseable(options.readyTimeout)
              THEN cap.connect.readyTimeout = 20000
              ELSE /\ AllDigits(options.readyTimeout.str)
                   /\ cap.connect.readyTimeout = DecimalValue(options.readyTimeout.str)

\* C16 amended: host 127.0.0.1 for a blank host, else the configured host
\* trimmed and in lower case; port 22 and timeout 20000 when the value is
\* absent or does not start with a digit, else the integer its leading
\* digits denote.  A host that is trimmed and in lower case and a port or
\* timeout written in digits only are passed as configured.
C16_DefaultsResolved ==
    ConnectCalled
        => /\ cap.connect.host = IF isEmptyString(toStringSafe(options.host))
                                 THEN <<"127.0.0.1">>
                                 ELSE TrimBlanks(toLowerCase(options.host.str))
           /\ cap.connect.port = IF Unparseable(options.port) THEN 22
                                 ELSE DecimalValue(DigitPrefix(TrimLeft(options.port.str)))
           /\ cap.connect.readyTimeout =
                 IF Unparseable(options.readyTimeout) THEN 20000
                 ELSE DecimalValue(DigitPrefix(TrimLeft(options.readyTimeout.str)))
           /\ options.host = Given(<<"host">>) => cap.connect.host = <<"host">>
           /\ options.port = Given(<<2, 1>>) => cap.connect.port = 21
           /\ options.readyTimeout = Given(<<3, 0>>) => cap.connect.readyTimeout = 30
           /\ options = DefaultOptions
                 => /\ cap.connect.host = <<"127.0.0.1">>
                    /\ cap.connect.port = 22
                    /\ cap.connect.readyTimeout = 20000

\* C16 witness: the host is configured with capitals and blanks around it and
\* the port with a fraction; connect got the host in lower case and the port
\* cut to its integer part.
C16_Witness ==
    /\ ConnectCalled
    /\ options.host = Given(<<Blank, "HOST", Blank>>)
    /\ options.port = Given(<<2, 1, Dot, 5>>)
    /\ cap.connect.host = <<"host">>
    /\ cap.connect.port = 21

\* C17: within one upload the put is issued only once the parent is marked
\* present, by a cache hit or right after a listing or mkdir that succeeded;
\* the chmod is issued only right after a put that succeeded; a failed put
\* ends the upload rejected with the put's error, with no chmod issued.
C17_UploadOrder ==
    \A u \in Uploads :
        LET t == u.trace
        IN  /\ \A k \in 1..Len(t) :
                  t[k] = "put"
                     => /\ u.dir \in checkedRemoteDirs[u.sess]
                        /\ \/ k = 1 /\ u.hit
                           \/ k > 1 /\ t[k - 1] \in {"list.ok", "mkdir.ok"}
            /\ \A k \in 1..Len(t) :
                  t[k] = "chmod" => k > 1 /\ t[k - 1] = "put.ok"
            /\ \A k \in 1..Len(t) :
                  t[k] \in {"put.ok", "put.fail"} => k > 1 /\ t[k - 1] = "put"
            /\ Has(t, "put.fail")
                  => /\ u.pc = "done"
                     /\ t[Len(t)] = "put.fail"
                     /\ ~Has(t, "chmod")
                     /\ u.promise.state = "rejected"
                     /\ u.promise.err = "put"

\* C17 witness: an upload with a permission to set whose parent had to be
\* created and whose put then failed.
C17_Witness ==
    \E u \in Uploads :
        /\ Has(u.trace, "mkdir.ok")
        /\ Has(u.trace, "put.fail")
        /\ u.resolved.mode.kind # "false"
        /\ u.promise.state = "rejected"

\* C18: every downloadFile call eventually completes: once the call is made,
\* its promise is eventually resolved or rejected, given that the transport
\* answers the get, the stream emits 'end' or 'error' and the temp-file
\* steps return.
C18_DownloadCompletes == (dl.pc # "idle") ~> (dl.promise.state # "pending")

\* C18 witness: a download that completed by the stream's 'error' while its
\* staging in the temp file was still waiting for the stream's 'end'.
C18_Witness ==
    /\ dl.pc = "tmp"
    /\ dl.errored
    /\ dl.tmpCall = "running"
    /\ dl.comp.state = "pending"
    /\ dl.promise.state = "rejected"

\* C19: a directory is marked in a client's cache only if an upload of that
\* client saw a listing or a mkdir of it succeed; a marked directory stays
\* marked while the client is open, also for an upload whose put or chmod
\* failed; and no step of deleteFile, downloadFile or listDirectory changes
\* any cache.
C19_CacheMarksOnlyEnsured ==
    /\ [](\A s \in Sessions : checkedRemoteDirs[s] \subseteq ensured[s])
    /\ [](\A u \in Uploads :
             (Has(u.trace, "put.fail") \/ Has(u.trace, "chmod.fail"))
                => u.dir \in checkedRemoteDirs[u.sess])
    /\ [][\A s \in Sessions :
             (sessState[s] = "open" /\ sessState'[s] = "open")
                => checkedRemoteDirs[s] \subseteq checkedRemoteDirs'[s]]_vars
    /\ [][(del' # del \/ dl' # dl \/ ls' # ls)
             => checkedRemoteDirs' = checkedRemoteDirs]_vars
    /\ [][checkedRemoteDirs' # checkedRemoteDirs
             => \E u \in Uploads :
                   /\ u.pc \in {"list", "mkdir"}
                   /\ u.dir \in ensured'[u.sess]
                   /\ checkedRemoteDirs' =
                         [checkedRemoteDirs EXCEPT ![u.sess] = @ \cup {u.dir}]]_vars

\* C19 witness: directories are marked in the listing client's cache, and a
\* deleteFile call on that client has run to its end.
C19_Witness ==
    /\ checkedRemoteDirs[ListingSession] # {}
    /\ del.pc = "done"
    /\ del.deleted = "ok"

\* C20: when openConnection fails for a download capability, the capability
\* rejects with the error of the failed opening, no download is started and
\* end() is never called; at every point the number of end() calls is at
\* most the number of temporary clients that were opened.
C20_OpenFailureNoClose ==
    /\ cap.closes <= cap.opens
    /\ cap.pc \in {"readingKey", "opening"}
         => /\ cap.opens = 0
            /\ cap.downloads = 0
            /\ cap.closes = 0
            /\ dl = IdleDownload
    /\ (cap.pc = "done" /\ cap.opens = 0)
         => /\ cap.promise.state = "rejected"
            /\ cap.promise.err = IF cap.connect = NoConnect THEN "keyread" ELSE "connect"
            /\ cap.downloads = 0
            /\ cap.closes = 0
            /\ dl = IdleDownload
            /\ sessState[TempSession] # "open"

\* C20 witness: the connect of a capability failed before any host key was
\* verified; the capability is rejected with nothing downloaded or closed.
C20_Witness ==
    /\ cap.pc = "done"
    /\ cap.opens = 0
    /\ cap.verified = "none"
    /\ cap.promise.state = "rejected"
    /\ cap.promise.err = "connect"
    /\ cap.closes = 0

\* every entry of options.hashes is empty or whitespace only
OnlyBlankDigests == \A h \in Range(asArray(options.hashes)) : isEmptyString(h)

\* C21: the list the host verifier holds has no blank entry: the blank
\* entries of the configured digest list are dropped and the others kept;
\* when the configured list has blank entries only, the verifier holds no
\* digest at all and accepts every host key it is shown.
C21_BlankDigestsDropped ==
    ConnectCalled
        => /\ \A i \in 1..Len(cap.connect.hashes) : cap.connect.hashes[i] # <<>>
           /\ Len(cap.connect.hashes)
                 = Cardinality({ k \in 1..Len(asArray(options.hashes)) :
                                    ~isEmptyString(asArray(options.hashes)[k]) })
           /\ OnlyBlankDigests
                 => /\ cap.connect.hashes = <<>>
                    /\ cap.verified # "rejected"
                    /\ cap.keyHash # <<>> => cap.verified = "accepted"

\* C21 witness: the configured list holds an empty and a whitespace-only
\* entry and nothing else, and a host key was presented and accepted.
C21_Witness ==
    /\ ConnectCalled
    /\ options.hashes = HashList(<< <<>>, <<Blank>> >>)
    /\ cap.connect.hashes = <<>>
    /\ cap.keyHash = <<"ef">>
    /\ cap.verified = "accepted"

====
